---- MODULE Spec2Model ----
(***************************************************************************)
(* minifetch: the threshold classifier and the section renderers of        *)
(* src/minifetch/main.py, and the report driver main() that runs them.     *)
(*                                                                         *)
(* Python floats are modelled as exact rationals [n, d] (d > 0); None is a *)
(* value of its own, so that arithmetic on None raises TypeError as it     *)
(* does in Python.  A call returns either Ok(v) or Raise(e).               *)
(***************************************************************************)
EXTENDS Integers, Sequences, FiniteSets, TLC

VARIABLES
    pc,        \* report run: the renderer main() is at, "done" or "raised"
    invoked,   \* report run: the renderers main() has called, in order
    exc,       \* report run: the exception that left main(), "none" if none
    arg,       \* report run: what the metrics provider gave that renderer
    out,       \* report run: what that renderer printed to the console
    calls,     \* report run: the per-item metrics lookups that renderer made
    fn,        \* classifier calls: the function called last
    fargs,     \* classifier calls: its arguments <<value, total>>
    fres,      \* classifier calls: its outcome
    prev       \* classifier calls: the color_from_percent call before the last

vars == <<pc, invoked, exc, arg, out, calls, fn, fargs, fres, prev>>

runVars == <<pc, invoked, exc, arg, out, calls>>
fnVars == <<fn, fargs, fres, prev>>

----------------------------------------------------------------------------
(* Python values *)

None == [t |-> "None", n |-> 0, d |-> 1]
Num(a, b) == [t |-> "num", n |-> a, d |-> b]
Whole(a) == Num(a, 1)
Tenths(a) == Num(a, 10)

IsNone(x) == x.t = "None"

\* truth value of a number or None
Truthy(x) == x.t = "num" /\ x.n # 0

\* `a or b`
PyOr(a, b) == IF Truthy(a) THEN a ELSE b

Ok(v) == [exc |-> "none", val |-> v]
Raise(e) == [exc |-> e, val |-> "none"]

\* percent < k for an integer constant k
Lt(x, k) == x.n < k * x.d

\* value / total * 100
PercentOf(value, total) ==
    IF IsNone(value) \/ IsNone(total) THEN Raise("TypeError")
    ELSE IF total.n = 0 THEN Raise("ZeroDivisionError")
    ELSE IF total.n > 0
         THEN Ok(Num(value.n * total.d * 100, value.d * total.n))
         ELSE Ok(Num(-(value.n * total.d * 100), -(value.d * total.n)))

----------------------------------------------------------------------------
(* Threshold classifier *)

THRESHOLD_GREEN == 50
THRESHOLD_YELLOW == 80

color_from_percent_le(percent) ==
    IF percent.n <= THRESHOLD_GREEN * percent.d THEN "green"
    ELSE IF percent.n <= THRESHOLD_YELLOW * percent.d THEN "yellow"
    ELSE "red"

color_from_percent(percent) ==
    IF Lt(percent, THRESHOLD_GREEN) THEN "green"
    ELSE IF Lt(percent, THRESHOLD_YELLOW) THEN "yellow"
    ELSE "red"

Style(color) == [color |-> color, bold |-> TRUE]

style_from_percent(percent) == Style(color_from_percent(percent))

style_from_value_defaulting(value, total) ==
    IF ~IsNone(total) /\ total.n = 0 THEN Ok(style_from_percent(Whole(0)))
    ELSE LET percent == PercentOf(value, total)
         IN  IF percent.exc # "none" THEN Raise(percent.exc)
             ELSE Ok(style_from_percent(percent.val))

style_from_value(value, total) ==
    IF ~IsNone(total) /\ total.n = 0 THEN Raise("ZeroDivisionError")
    ELSE LET percent == PercentOf(value, total)
         IN  IF percent.exc # "none" THEN Raise(percent.exc)
             ELSE Ok(style_from_percent(percent.val))

color_from_value(value, total) ==
    LET percent == PercentOf(value, total)
    IN  IF percent.exc # "none" THEN Raise(percent.exc)
        ELSE Ok(color_from_percent(percent.val))

----------------------------------------------------------------------------
(* Calls of the classifier functions on sampled arguments *)

PercentSamples ==
    {Tenths(k) : k \in {-10, 0, 250, 499, 500, 501, 799, 800, 801, 1000, 1500}}

ValueSamples ==
    {Whole(k) : k \in {-50, 0, 25, 50, 79, 80, 100}} \cup {Tenths(499), Tenths(799)}

TotalSamples == {Whole(k) : k \in {-100, 0, 1, 100, 200}} \cup {Tenths(5)}

NoCall == [color |-> "none", p |-> Whole(0)]

InitRun ==
    /\ pc = "show_hostname"
    /\ invoked = <<>>
    /\ exc = "none"
    /\ arg = <<>>
    /\ out = <<>>
    /\ calls = <<>>

InitFn ==
    /\ fn = "none"
    /\ fargs = <<Whole(0), Whole(1)>>
    /\ fres = Ok("none")
    /\ prev = NoCall

Init == InitRun /\ InitFn

CallColorFromPercent ==
    \E p \in PercentSamples :
        /\ fn' = "color_from_percent"
        /\ fargs' = <<p, Whole(1)>>
        /\ fres' = Ok(color_from_percent(p))
        /\ prev' = IF fn = "color_from_percent"
                   THEN [color |-> fres.val, p |-> fargs[1]]
                   ELSE prev
        /\ UNCHANGED runVars

CallStyleFromValue ==
    \E value \in ValueSamples, total \in TotalSamples :
        /\ fn' = "style_from_value"
        /\ fargs' = <<value, total>>
        /\ fres' = style_from_value(value, total)
        /\ UNCHANGED <<prev, runVars>>

CallColorFromValue ==
    \E value \in ValueSamples, total \in TotalSamples :
        /\ fn' = "color_from_value"
        /\ fargs' = <<value, total>>
        /\ fres' = color_from_value(value, total)
        /\ UNCHANGED <<prev, runVars>>

NextClassify ==
    \/ CallColorFromPercent
    \/ CallStyleFromValue
    \/ CallColorFromValue

SpecClassify == Init /\ [][NextClassify]_vars

----------------------------------------------------------------------------
(* Strings that the code searches are sequences of characters *)

StartsWith(s, p) == Len(s) >= Len(p) /\ SubSeq(s, 1, Len(p)) = p

\* `p in s`
Contains(s, p) ==
    \E i \in 1..(Len(s) - Len(p) + 1) : SubSeq(s, i, i + Len(p) - 1) = p

\* an optional string: None or a str
NoStr == [some |-> FALSE, str |-> ""]
Str(s) == [some |-> TRUE, str |-> s]
StrTruthy(o) == o.some /\ o.str # ""
\* `o or dflt`
StrOr(o, dflt) == IF StrTruthy(o) THEN o.str ELSE dflt
\* f"{o}"
Fmt(o) == IF o.some THEN o.str ELSE "None"

----------------------------------------------------------------------------
(* Console output: one item per console.print *)

Line(str) == [kind |-> "line", text |-> str, rows |-> <<>>, lines |-> <<>>]
Blank == [kind |-> "blank", text |-> "", rows |-> <<>>, lines |-> <<>>]
TableOut(title, rows) ==
    [kind |-> "table", text |-> title, rows |-> rows, lines |-> <<>>]
\* Panel(Group(table, Text, ...)): the table's rows and one line per Text
PanelOut(title, rows, texts) ==
    [kind |-> "panel", text |-> title, rows |-> rows, lines |-> texts]

Printed(items) == [exc |-> "none", val |-> items, asked |-> <<>>]
PrintedAfter(items, lookups) == [exc |-> "none", val |-> items, asked |-> lookups]
Raised(e, lookups) == [exc |-> e, val |-> <<>>, asked |-> lookups]

----------------------------------------------------------------------------
(* Report driver *)

Order ==
    << "show_hostname", "show_os", "show_logged_in_user", "show_uptime",
       "show_cpu", "show_memory", "show_disk", "show_network_interfaces",
       "show_network_statistics", "show_temperatures" >>

IndexOf(name) == CHOOSE i \in 1..Len(Order) : Order[i] = name

NextSection(name) ==
    IF IndexOf(name) = Len(Order) THEN "done" ELSE Order[IndexOf(name) + 1]

AtCall(name) == pc = name /\ Len(invoked) = IndexOf(name) - 1
Returned(name) == pc = name /\ Len(invoked) = IndexOf(name)

\* main() runs the renderer `name` on `input`; an exception it raises is
\* handled nowhere and leaves main()
MainStep(name, input, r) ==
    /\ invoked' = Append(invoked, name)
    /\ arg' = input
    /\ out' = IF r.exc = "none" THEN r.val ELSE <<>>
    /\ calls' = r.asked
    /\ exc' = r.exc
    /\ pc' = IF r.exc = "none" THEN name ELSE "raised"
    /\ UNCHANGED fnVars

\* the renderer has returned: main() goes on to its next statement; arg, out
\* and calls describe the renderer main() is at, and start empty again
MainAdvance ==
    /\ pc \in {Order[i] : i \in 1..Len(Order)}
    /\ Returned(pc)
    /\ pc' = NextSection(pc)
    /\ arg' = <<>>
    /\ out' = <<>>
    /\ calls' = <<>>
    /\ UNCHANGED <<invoked, exc, fnVars>>

----------------------------------------------------------------------------
(* Host banner and OS info *)

HostNames == {"box", "srv"}
Systems == {"Linux", "Windows", "Darwin"}

show_hostname(host_name) == Printed(<<Line("figlet:" \o host_name)>>)

ShowHostname ==
    /\ AtCall("show_hostname")
    /\ \E host_name \in HostNames :
        MainStep("show_hostname", host_name, show_hostname(host_name))

show_os(os_name, os_version, os_arch) ==
    LET os_info == os_name \o " " \o os_version \o " (" \o os_arch \o ")"
    IN  Printed(<<Line("OS:\t " \o os_info), Blank>>)

ShowOs ==
    /\ AtCall("show_os")
    /\ \E os_name \in Systems, os_version \in {"6.1"}, os_arch \in {"x86_64", "arm64"} :
        MainStep("show_os", <<os_name, os_version, os_arch>>,
                 show_os(os_name, os_version, os_arch))

----------------------------------------------------------------------------
(* Logged-in users *)

MaxUsers == 3
Now == 100

\* humanize.naturaltime of a delta in seconds: never the empty string
naturaltime(delta) ==
    IF delta = 0 THEN "now"
    ELSE IF delta < 60 THEN ToString(delta) \o " seconds ago"
    ELSE "a minute ago"

Sessions ==
    [name : {"alice"}, terminal : {NoStr, Str("tty1")},
     host : {NoStr, Str("10.0.0.5")}, started : {None, Whole(0), Whole(70)}]

SeqsUpTo(S, n) == UNION {[1..k -> S] : k \in 0..n}

started_text_truthy(user) ==
    IF Truthy(user.started) THEN naturaltime(Now - user.started.n) ELSE ""

started_text(user) ==
    IF ~IsNone(user.started) THEN naturaltime(Now - user.started.n) ELSE ""

users_row(user) ==
    << user.name, StrOr(user.terminal, ""), StrOr(user.host, ""), started_text(user) >>

users_summary(user) ==
    IF StrTruthy(user.host)
    THEN user.name \o " on " \o Fmt(user.terminal) \o " from " \o Fmt(user.host)
         \o " for " \o started_text(user)
    ELSE user.name \o " on " \o StrOr(user.terminal, "console")
         \o " for " \o started_text(user)

show_logged_in_user(users) ==
    IF Len(users) = 0 THEN Printed(<<Line("No users logged in.")>>)
    ELSE IF Len(users) > 1
    THEN Printed(<< TableOut("Logged In Users",
                             [i \in 1..Len(users) |-> users_row(users[i])]),
                    Blank >>)
    ELSE Printed(<< Line("Logged In User:\n " \o users_summary(users[1])), Blank >>)

ShowLoggedInUser ==
    /\ AtCall("show_logged_in_user")
    /\ \E users \in SeqsUpTo(Sessions, MaxUsers) :
        MainStep("show_logged_in_user", users, show_logged_in_user(users))

----------------------------------------------------------------------------
(* Uptime *)

\* humanize.precisedelta(uptime, minimum_unit="minutes", format="%0.0f")
precisedelta(seconds) == ToString(seconds \div 60) \o " minutes"

show_uptime(boot_time) ==
    Printed(<< Line("Uptime"),
               Line("System is up " \o precisedelta(Now - boot_time)) >>)

ShowUptime ==
    /\ AtCall("show_uptime")
    /\ \E boot_time \in {0, 40} :
        MainStep("show_uptime", boot_time, show_uptime(boot_time))

----------------------------------------------------------------------------
(* CPU load *)

MaxCores == 2

\* f"{percent:.1f}" of a value given in tenths
fmt1(x) == ToString(x.n \div 10) \o "." \o ToString(x.n % 10)

\* f"{x:.2f}" of a non-negative value
fmt2(x) ==
    LET h == (x.n * 100) \div x.d
    IN  ToString(h \div 100) \o "." \o ToString((h % 100) \div 10) \o ToString(h % 10)

CorePercents == {Tenths(0), Tenths(499), Tenths(500), Tenths(800)}
LoadAvgs ==
    { <<Whole(0), Whole(0), Whole(0)>>, <<Whole(1), Whole(3), Whole(1)>>,
      <<Whole(3), Whole(1), Whole(0)>>, <<Whole(12), Whole(2), Whole(3)>> }
CpuCounts == {None, Whole(1), Whole(4)}

CpuInputs ==
    [cpu_count : CpuCounts, has_getloadavg : BOOLEAN, loadavg : LoadAvgs,
     cpu_percentages : SeqsUpTo(CorePercents, MaxCores), system : Systems]

core_row(i, percent) ==
    << "Core " \o ToString(i - 1), color_from_percent(percent), fmt1(percent) \o "%" >>

load_cell(x) ==
    LET st == style_from_value(x, Whole(1))
    IN  IF st.exc # "none" THEN st ELSE Ok([text |-> fmt2(x), style |-> st.val])

show_cpu(m) ==
    LET cpu_count == IF ~Truthy(m.cpu_count) THEN 1 ELSE m.cpu_count.n
        load_avg == [k \in 1..3 |-> Num(m.loadavg[k].n, m.loadavg[k].d * cpu_count)]
        cores == TableOut("CPU Load",
                          [i \in 1..Len(m.cpu_percentages) |->
                              core_row(i, m.cpu_percentages[i])])
        cells == [k \in 1..3 |-> load_cell(load_avg[k])]
    IN  IF ~m.has_getloadavg THEN Raised("AttributeError", <<>>)
        ELSE IF m.system = "Windows" THEN Printed(<<cores, Blank>>)
        ELSE IF \E k \in 1..3 : cells[k].exc # "none"
             THEN Raised(cells[CHOOSE k \in 1..3 : cells[k].exc # "none"].exc, <<>>)
        ELSE Printed(<< cores, Blank,
                        TableOut("Load Average", << [k \in 1..3 |-> cells[k].val] >>) >>)

ShowCpu ==
    /\ AtCall("show_cpu")
    /\ \E m \in CpuInputs : MainStep("show_cpu", m, show_cpu(m))

----------------------------------------------------------------------------
(* Memory *)

\* humanize.naturalsize (decimal units), for sizes below 1 GB
naturalsize(n) ==
    LET a == IF n < 0 THEN -n ELSE n
        sign == IF n < 0 THEN "-" ELSE ""
    IN  IF a = 1 THEN sign \o "1 Byte"
        ELSE IF a < 1000 THEN sign \o ToString(a) \o " Bytes"
        ELSE IF a < 1000000
             THEN sign \o ToString(a \div 1000) \o "."
                  \o ToString((a % 1000) \div 100) \o " kB"
        ELSE sign \o ToString(a \div 1000000) \o "."
             \o ToString((a % 1000000) \div 100000) \o " MB"

VmemSamples ==
    { [total |-> 8000, percent |-> Tenths(500), used |-> 4000],
      [total |-> 8000000, percent |-> Tenths(875), used |-> 7000000] }
SmemSamples ==
    { [total |-> 0, percent |-> Tenths(0), used |-> 0],
      [total |-> 2000, percent |-> Tenths(0), used |-> 0],
      [total |-> 2000, percent |-> Tenths(750), used |-> 1500],
      [total |-> 512, percent |-> Tenths(2), used |-> 1] }

gauge_row(label, percent) ==
    << label, color_from_percent(percent), fmt1(percent) \o "%" >>

\* Text(f"Swap: ..." if smem.total else "")
swap_text(smem) ==
    IF smem.total # 0
    THEN "Swap: " \o naturalsize(smem.used) \o " / " \o naturalsize(smem.total)
    ELSE ""

show_memory(vmem, smem) ==
    Printed(<< PanelOut("Memory",
                        << gauge_row("RAM", vmem.percent),
                           gauge_row("Swap", smem.percent) >>,
                        << "RAM: " \o naturalsize(vmem.used) \o " / "
                               \o naturalsize(vmem.total),
                           swap_text(smem) >>),
               Blank >>)

ShowMemory ==
    /\ AtCall("show_memory")
    /\ \E vmem \in VmemSamples, smem \in SmemSamples :
        MainStep("show_memory", <<vmem, smem>>, show_memory(vmem, smem))

----------------------------------------------------------------------------
(* Disk *)

MaxParts == 2

LOOP == <<"l", "o", "o", "p">>
DONTBROWSE == <<"d", "o", "n", "t", "b", "r", "o", "w", "s", "e">>
DATA_VOLUME == <<"/", "S", "y", "s", "t", "e", "m", "/", "V", "o", "l", "u", "m", "e", "s", "/", "D", "a", "t", "a">>

MountPoints ==
    { <<"/">>,
      <<"/", "m", "n", "t", "/", "l", "o", "o", "p", "0">>,
      <<"/", "S", "y", "s", "t", "e", "m", "/", "V", "o", "l", "u", "m", "e", "s", "/", "D", "a", "t", "a", "/", "h", "o", "m", "e">>,
      <<"/", "V", "o", "l", "u", "m", "e", "s", "/", "O", "t", "h", "e", "r">> }
MountOpts == { <<"r", "w">>, <<"r", "w", ",", "d", "o", "n", "t", "b", "r", "o", "w", "s", "e">> }
Devices == { <<"/", "d", "e", "v", "/", "s", "d", "a", "1">>, <<"/">> }

\* psutil.disk_usage(mountpoint): raises, or the usage of the partition
DiskUsages ==
    { [total |-> 0, percent |-> Tenths(0), used |-> 0, raises |-> TRUE],
      [total |-> 8000, percent |-> Tenths(905), used |-> 7240, raises |-> FALSE] }

Partitions ==
    [device : Devices, mountpoint : MountPoints, fstype : {"", "apfs"},
     opts : MountOpts, usage : DiskUsages]

disk_excluded_any_hidden(partition) ==
    \/ Contains(partition.mountpoint, LOOP)
    \/ partition.fstype = ""
    \/ Contains(partition.opts, DONTBROWSE)

\* the three `continue` conditions of the partition loop
disk_excluded(partition) ==
    \/ Contains(partition.mountpoint, LOOP)
    \/ partition.fstype = ""
    \/ /\ Contains(partition.opts, DONTBROWSE)
       /\ ~StartsWith(partition.mountpoint, DATA_VOLUME)

disk_row(partition) ==
    << IF partition.device # partition.mountpoint
       THEN <<partition.device, " on ", partition.mountpoint>>
       ELSE <<partition.device>>,
       color_from_percent(partition.usage.percent),
       naturalsize(partition.usage.used) \o " / " \o naturalsize(partition.usage.total) >>

\* the first index at which the loop raises, Len(raises) + 1 if it never does
FirstIndex(raises) ==
    IF \E i \in 1..Len(raises) : raises[i]
    THEN CHOOSE i \in 1..Len(raises) :
            raises[i] /\ \A j \in 1..(i - 1) : ~raises[j]
    ELSE Len(raises) + 1

show_disk(disk_partitions) ==
    LET Shown(partition) == ~disk_excluded(partition)
        Fails(partition) == Shown(partition) /\ partition.usage.raises
        stop == FirstIndex([i \in 1..Len(disk_partitions) |-> Fails(disk_partitions[i])])
        reached == SelectSeq(SubSeq(disk_partitions, 1, stop - 1), Shown)
        lookups == [i \in 1..Len(reached) |-> reached[i].mountpoint]
    IN  IF stop <= Len(disk_partitions)
        THEN Raised("PermissionError",
                    Append(lookups, disk_partitions[stop].mountpoint))
        ELSE PrintedAfter(<< PanelOut("Disk",
                                      [i \in 1..Len(reached) |-> disk_row(reached[i])],
                                      <<>>),
                             Blank >>,
                          lookups)

ShowDisk ==
    /\ AtCall("show_disk")
    /\ \E disk_partitions \in SeqsUpTo(Partitions, MaxParts) :
        MainStep("show_disk", disk_partitions, show_disk(disk_partitions))

----------------------------------------------------------------------------
(* Network interfaces *)

MaxAddrs == 2

LO == <<"l", "o">>
NicNames == { <<"l", "o", "0">>, <<"e", "t", "h", "0">> }

Addresses ==
    { [family |-> "AF_INET", address |-> "192.168.1.2", ptp |-> NoStr],
      [family |-> "AF_INET", address |-> "10.8.0.2", ptp |-> Str("10.8.0.1")],
      [family |-> "AF_INET6", address |-> "fe80::1", ptp |-> NoStr],
      [family |-> "AF_INET6", address |-> "fe80::2", ptp |-> Str("fe80::9")] }

\* if_stats[nic]: a KeyError when the key is missing
IfStats ==
    { [missing |-> TRUE, isup |-> FALSE, speed |-> 0],
      [missing |-> FALSE, isup |-> FALSE, speed |-> 0],
      [missing |-> FALSE, isup |-> TRUE, speed |-> 0],
      [missing |-> FALSE, isup |-> TRUE, speed |-> 1000] }

\* one item of if_addrs, with the entry if_stats holds for the same name
Interfaces == [nic : NicNames, addrs : SeqsUpTo(Addresses, MaxAddrs), stats : IfStats]

\* the items of a dict, in order: no key occurs twice
DictsOver(S) ==
    { d \in SeqsUpTo(S, Cardinality(NicNames)) :
        \A i, j \in 1..Len(d) : i # j => d[i].nic # d[j].nic }

RECURSIVE join(_, _)
\* sep.join(strs)
join(sep, strs) ==
    IF Len(strs) = 0 THEN ""
    ELSE IF Len(strs) = 1 THEN strs[1]
    ELSE strs[1] \o sep \o join(sep, Tail(strs))

netif_skipped_any_name(item) == item.addrs = <<>>

\* `nic.startswith("lo") or not addrs`: decided before if_stats is read
netif_skipped(item) == StartsWith(item.nic, LO) \/ item.addrs = <<>>

\* any(a for a in addrs if a.ptp)
netif_vpn(item) == \E k \in 1..Len(item.addrs) : StrTruthy(item.addrs[k].ptp)

netif_row(item) ==
    LET IsV4(addr) == addr.family = "AF_INET"
        addresses == SelectSeq(item.addrs, IsV4)
    IN  << item.nic,
           join("\n", [k \in 1..Len(addresses) |-> addresses[k].address]),
           IF item.stats.speed # 0 THEN ToString(item.stats.speed) \o " Mbps" ELSE "",
           IF netif_vpn(item) THEN ":closed_lock_with_key:" ELSE "" >>

show_network_interfaces(if_addrs) ==
    LET Read(item) == ~netif_skipped(item)
        Fails(item) == Read(item) /\ item.stats.missing
        HasV4(item) == \E k \in 1..Len(item.addrs) : item.addrs[k].family = "AF_INET"
        Shown(item) == Read(item) /\ item.stats.isup /\ HasV4(item)
        stop == FirstIndex([i \in 1..Len(if_addrs) |-> Fails(if_addrs[i])])
        read == SelectSeq(SubSeq(if_addrs, 1, stop - 1), Read)
        shown == SelectSeq(SubSeq(if_addrs, 1, stop - 1), Shown)
        lookups == [i \in 1..Len(read) |-> read[i].nic]
    IN  IF stop <= Len(if_addrs)
        THEN Raised("KeyError", Append(lookups, if_addrs[stop].nic))
        ELSE PrintedAfter(<< TableOut("Network Interfaces",
                                      [i \in 1..Len(shown) |-> netif_row(shown[i])]) >>,
                          lookups)

ShowNetworkInterfaces ==
    /\ AtCall("show_network_interfaces")
    /\ \E if_addrs \in DictsOver(Interfaces) :
        MainStep("show_network_interfaces", if_addrs, show_network_interfaces(if_addrs))

----------------------------------------------------------------------------
(* Network statistics *)

ByteCounts == {-1, 0, 5, 2500}

\* one item of net_io: the counters of an interface, or None
Counters ==
    [nic : NicNames, none : {FALSE}, bytes_sent : ByteCounts, bytes_recv : ByteCounts]
    \cup [nic : NicNames, none : {TRUE}, bytes_sent : {0}, bytes_recv : {0}]

netstat_skipped(item) ==
    \/ StartsWith(item.nic, LO)
    \/ item.none
    \/ (item.bytes_sent = 0 /\ item.bytes_recv = 0)
    \/ (item.bytes_sent <= 0 /\ item.bytes_recv <= 0)

netstat_row(item) ==
    << item.nic, naturalsize(item.bytes_sent), naturalsize(item.bytes_recv) >>

show_network_statistics(net_io) ==
    LET Shown(item) == ~netstat_skipped(item)
        shown == SelectSeq(net_io, Shown)
    IN  Printed(<< TableOut("Network Statistics",
                            [i \in 1..Len(shown) |-> netstat_row(shown[i])]) >>)

ShowNetworkStatistics ==
    /\ AtCall("show_network_statistics")
    /\ \E net_io \in DictsOver(Counters) :
        MainStep("show_network_statistics", net_io, show_network_statistics(net_io))

----------------------------------------------------------------------------
(* Temperatures *)

MaxEntries == 1

SensorNames == {"coretemp", "acpitz"}

Readings ==
    [label : {"Core 0"}, current : {None, Whole(0), Whole(90)},
     critical : {None, Whole(0), Whole(200)}]

\* one item of temps: a sensor name and its readings
SensorGroups == [name : SensorNames, entries : SeqsUpTo(Readings, MaxEntries)]

TempDicts ==
    { d \in SeqsUpTo(SensorGroups, Cardinality(SensorNames)) :
        \A i, j \in 1..Len(d) : i # j => d[i].name # d[j].name }

\* psutil.sensors_temperatures() is called only where psutil has it
TempInputs ==
    [has_sensors_temperatures : {TRUE}, temps : TempDicts]
    \cup [has_sensors_temperatures : {FALSE}, temps : {<<>>}]

RECURSIVE readings_of(_)
\* the (name, entry) pairs the two nested loops visit, in order
readings_of(temps) ==
    IF Len(temps) = 0 THEN <<>>
    ELSE [k \in 1..Len(temps[1].entries) |->
             [name |-> temps[1].name, entry |-> temps[1].entries[k]]]
         \o readings_of(Tail(temps))

\* f"{entry.current}"
fmt_current(current) == IF IsNone(current) THEN "None" ELSE ToString(current.n) \o ".0"

\* style_from_value(entry.current, entry.critical or 100)
temp_style(entry) == style_from_value(entry.current, PyOr(entry.critical, Whole(100)))

temp_row(reading) ==
    << reading.name,
       [text |-> fmt_current(reading.entry.current) \o "C",
        style |-> temp_style(reading.entry).val] >>

show_temperatures(m) ==
    LET visited == readings_of(m.temps)
        Fails(reading) == temp_style(reading.entry).exc # "none"
        Shown(reading) == ~IsNone(reading.entry.current)
        stop == FirstIndex([i \in 1..Len(visited) |-> Fails(visited[i])])
        shown == SelectSeq(visited, Shown)
    IN  IF ~m.has_sensors_temperatures
        THEN Printed(<<Line("Temperature sensors are not supported on this system.")>>)
        ELSE IF m.temps = <<>>
        THEN Printed(<<Line("No temperature data available.")>>)
        ELSE IF stop <= Len(visited)
        THEN Raised(temp_style(visited[stop].entry).exc, <<>>)
        ELSE Printed(<< TableOut("Temperatures",
                                 [i \in 1..Len(shown) |-> temp_row(shown[i])]) >>)

ShowTemperatures ==
    /\ AtCall("show_temperatures")
    /\ \E m \in TempInputs : MainStep("show_temperatures", m, show_temperatures(m))

Next ==
    \/ ShowHostname
    \/ ShowOs
    \/ ShowLoggedInUser
    \/ ShowUptime
    \/ ShowCpu
    \/ ShowMemory
    \/ ShowDisk
    \/ ShowNetworkInterfaces
    \/ ShowNetworkStatistics
    \/ ShowTemperatures
    \/ MainAdvance

Spec == Init /\ [][Next]_vars

----------------------------------------------------------------------------
(* Properties *)

\* the renderer `name` has run: it returned, or it raised and ended main()
Ran(name) == Len(invoked) = IndexOf(name) /\ pc \in {name, "raised"}

Severity(color) ==
    CASE color = "green" -> 1 [] color = "yellow" -> 2 [] color = "red" -> 3

\* C1: color_from_percent(p) is green (Low) for p < 50, yellow (Medium) for
\* 50 <= p < 80 and red (High) for p >= 80; 49.9 is Low, 50.0 and 79.9 are
\* Medium, 80.0 is High; and of two calls, the one with the larger p never
\* has the lower severity.
C1_Thresholds ==
    fn = "color_from_percent" =>
        LET p == fargs[1]
            c == fres.val
        IN  /\ fres.exc = "none"
            /\ (c = "green") <=> (p.n < 50 * p.d)
            /\ (c = "yellow") <=> (p.n >= 50 * p.d /\ p.n < 80 * p.d)
            /\ (c = "red") <=> (p.n >= 80 * p.d)
            /\ (p = Tenths(499)) => (c = "green")
            /\ (p = Tenths(500)) => (c = "yellow")
            /\ (p = Tenths(799)) => (c = "yellow")
            /\ (p = Tenths(800)) => (c = "red")
            /\ (prev.color # "none" /\ prev.p.n * p.d <= p.n * prev.p.d)
                   => (Severity(prev.color) <= Severity(c))

C1_Witness ==
    /\ fn = "color_from_percent"
    /\ fargs[1] = Tenths(500)
    /\ fres.val = "yellow"
    /\ prev.p = Tenths(499)
    /\ prev.color = "green"

\* the colour of value/total*100 for total # 0, by cross-multiplication
RatioColor(value, total) ==
    LET v == 100 * value.n * total.d
        t == value.d * total.n
        Below(k) == IF t > 0 THEN v < k * t ELSE v > k * t
    IN  IF Below(50) THEN "green" ELSE IF Below(80) THEN "yellow" ELSE "red"

\* C2: style_from_value and color_from_value both end in ZeroDivisionError,
\* returning no colour, whenever total = 0 (also for value = 0); with
\* total # 0 they return the colour of value/total*100, and (50, 100) gives
\* yellow (Medium).
C2_Ratio ==
    fn \in {"style_from_value", "color_from_value"} =>
        LET value == fargs[1]
            total == fargs[2]
            color == IF fn = "style_from_value" THEN fres.val.color ELSE fres.val
        IN  /\ (total.n = 0) => (fres.exc = "ZeroDivisionError" /\ fres.val = "none")
            /\ (total.n # 0) => (fres.exc = "none" /\ color = RatioColor(value, total))
            /\ (value = Whole(50) /\ total = Whole(100)) => (color = "yellow")

C2_Witness ==
    /\ fn = "style_from_value"
    /\ fargs = <<Whole(0), Whole(0)>>
    /\ fres.exc = "ZeroDivisionError"

IsPrefix(s, t) == Len(s) <= Len(t) /\ SubSeq(t, 1, Len(s)) = s

\* C3: the renderers are invoked in the fixed order, no renderer's failure
\* leaves the driver, and a run that has ended has invoked every renderer up
\* to and including show_temperatures.
C3_FailSoft ==
    /\ IsPrefix(invoked, Order)
    /\ exc = "none"
    /\ (pc \in {"done", "raised"}) => (invoked = Order)

\* C4: on a platform without a load-average primitive show_cpu does not
\* raise, renders one gauge row per core and no load-average table; without
\* a temperature-sensor facility, or with no sensor data, show_temperatures
\* does not raise and prints one explicit notice.
C4_Degrades ==
    /\ (Ran("show_cpu") /\ ~arg.has_getloadavg) =>
           /\ exc = "none"
           /\ Len(out) = 2
           /\ out[1].kind = "table"
           /\ Len(out[1].rows) = Len(arg.cpu_percentages)
    /\ (Ran("show_temperatures")
            /\ (~arg.has_sensors_temperatures \/ arg.temps = <<>>)) =>
           /\ exc = "none"
           /\ Len(out) = 1
           /\ out[1].kind = "line"
           /\ out[1].text # ""

C5_Shown(item) ==
    /\ ~StartsWith(item.nic, <<"l", "o">>)
    /\ ~item.none
    /\ item.bytes_sent >= 0
    /\ item.bytes_recv >= 0
    /\ ~(item.bytes_sent = 0 /\ item.bytes_recv = 0)

\* C5: show_network_statistics prints a row for an interface exactly when it
\* is not loopback, its counters are not None, neither counter is negative
\* and the two are not both zero.
C5_RowIff ==
    Returned("show_network_statistics") =>
        LET shown == SelectSeq(arg, C5_Shown)
        IN  /\ Len(out[1].rows) = Len(shown)
            /\ \A i \in 1..Len(shown) : out[1].rows[i][1] = shown[i].nic

\* C6: with sensor data present, show_temperatures raises nothing, skips the
\* readings whose current value is None and prints one row for each other
\* reading, coloured by current against critical (100 when there is none);
\* the denominator is never 0.
C6_SkipsMissing ==
    (Ran("show_temperatures") /\ arg.has_sensors_temperatures /\ arg.temps # <<>>) =>
        LET HasCurrent(reading) == ~IsNone(reading.entry.current)
            shown == SelectSeq(readings_of(arg.temps), HasCurrent)
            Against(entry) == IF Truthy(entry.critical) THEN entry.critical ELSE Whole(100)
        IN  /\ exc = "none"
            /\ Len(out) = 1
            /\ Len(out[1].rows) = Len(shown)
            /\ \A i \in 1..Len(shown) :
                   /\ out[1].rows[i][1] = shown[i].name
                   /\ Against(shown[i].entry).n # 0
                   /\ out[1].rows[i][2].style.color
                          = RatioColor(shown[i].entry.current, Against(shown[i].entry))

C7_Excluded(partition) ==
    \/ Contains(partition.mountpoint, <<"l", "o", "o", "p">>)
    \/ partition.fstype = ""
    \/ /\ Contains(partition.opts, <<"d", "o", "n", "t", "b", "r", "o", "w", "s", "e">>)
       /\ ~StartsWith(partition.mountpoint, <<"/", "S", "y", "s", "t", "e", "m", "/", "V", "o", "l", "u", "m", "e", "s", "/", "D", "a", "t", "a">>)

\* C7: when show_disk returns, the rows it printed are, in order, exactly the
\* partitions that are none of: "loop" in the mount point; empty fstype;
\* "dontbrowse" in the options with a mount point not starting with
\* /System/Volumes/Data.  /mnt/loop0 has no row, /System/Volumes/Data/home
\* with dontbrowse has one, /Volumes/Other with dontbrowse has none.
C7_DiskFilter ==
    Returned("show_disk") =>
        LET Included(partition) == ~C7_Excluded(partition)
            kept == SelectSeq(arg, Included)
            rows == out[1].rows
            Mount(i) == rows[i][1][Len(rows[i][1])]
        IN  /\ Len(rows) = Len(kept)
            /\ \A i \in 1..Len(kept) : Mount(i) = kept[i].mountpoint
            /\ (Len(arg) = 1) =>
                   /\ (arg[1].mountpoint = <<"/", "m", "n", "t", "/", "l", "o", "o", "p", "0">>) => (rows = <<>>)
                   /\ (arg[1].fstype = "") => (rows = <<>>)
                   /\ (arg[1].opts = <<"r", "w", ",", "d", "o", "n", "t", "b", "r", "o", "w", "s", "e">> /\ arg[1].fstype # "") =>
                          /\ (arg[1].mountpoint = <<"/", "S", "y", "s", "t", "e", "m", "/", "V", "o", "l", "u", "m", "e", "s", "/", "D", "a", "t", "a", "/", "h", "o", "m", "e">>)
                                 => (Len(rows) = 1)
                          /\ (arg[1].mountpoint = <<"/", "V", "o", "l", "u", "m", "e", "s", "/", "O", "t", "h", "e", "r">>)
                                 => (rows = <<>>)

C7_Witness ==
    /\ Returned("show_disk")
    /\ Len(arg) = 2
    /\ arg[1].mountpoint = <<"/", "S", "y", "s", "t", "e", "m", "/", "V", "o", "l", "u", "m", "e", "s", "/", "D", "a", "t", "a", "/", "h", "o", "m", "e">>
    /\ arg[1].opts = <<"r", "w", ",", "d", "o", "n", "t", "b", "r", "o", "w", "s", "e">>
    /\ arg[2].mountpoint = <<"/", "V", "o", "l", "u", "m", "e", "s", "/", "O", "t", "h", "e", "r">>
    /\ arg[2].opts = <<"r", "w", ",", "d", "o", "n", "t", "b", "r", "o", "w", "s", "e">>
    /\ arg[2].fstype = "apfs"
    /\ Len(out[1].rows) = 1

C8_Shown(item) ==
    /\ ~StartsWith(item.nic, <<"l", "o">>)
    /\ item.addrs # <<>>
    /\ item.stats.isup
    /\ \E k \in 1..Len(item.addrs) : item.addrs[k].family = "AF_INET"

\* C8: when show_network_interfaces returns, its rows are, in order, exactly
\* the interfaces that are not named lo..., report an address, are up and
\* have an IPv4 address; a row lists the IPv4 addresses only and carries the
\* VPN mark exactly when some address of any family has ptp set; if_stats is
\* never read for a loopback name.
C8_NetifFilter ==
    /\ Ran("show_network_interfaces") =>
           \A k \in 1..Len(calls) : ~StartsWith(calls[k], <<"l", "o">>)
    /\ Returned("show_network_interfaces") =>
           LET kept == SelectSeq(arg, C8_Shown)
               rows == out[1].rows
               V4(item) == LET Is4(addr) == addr.family = "AF_INET"
                           IN  SelectSeq(item.addrs, Is4)
           IN  /\ Len(rows) = Len(kept)
               /\ \A i \in 1..Len(kept) :
                      /\ rows[i][1] = kept[i].nic
                      /\ rows[i][2] = join("\n", [k \in 1..Len(V4(kept[i])) |->
                                                     V4(kept[i])[k].address])
                      /\ (rows[i][4] # "") <=>
                             (\E k \in 1..Len(kept[i].addrs) :
                                  kept[i].addrs[k].ptp.some)

C8_Witness ==
    /\ Returned("show_network_interfaces")
    /\ Len(arg) = 2
    /\ arg[1].nic = <<"l", "o", "0">>
    /\ arg[1].stats.isup
    /\ arg[1].addrs # <<>>
    /\ arg[1].addrs[1].family = "AF_INET"
    /\ arg[2].nic = <<"e", "t", "h", "0">>
    /\ Len(arg[2].addrs) = 2
    /\ arg[2].addrs[1].family = "AF_INET"
    /\ ~arg[2].addrs[1].ptp.some
    /\ arg[2].addrs[2].family = "AF_INET6"
    /\ arg[2].addrs[2].ptp.some
    /\ Len(out[1].rows) = 1
    /\ out[1].rows[1][4] # ""

C9_Duration(user) ==
    IF IsNone(user.started) THEN "" ELSE naturaltime(Now - user.started.n)

\* C9: for n sessions show_logged_in_user prints: n = 0, the "no users"
\* notice only; n = 1, one summary line and no table, the terminal given as
\* "console" when terminal and host are both absent; n >= 2, one table of n
\* rows, one per session in order, the duration cell empty exactly when the
\* session's start time is None.
C9_Users ==
    Returned("show_logged_in_user") =>
        LET n == Len(arg)
            Kinds == [i \in 1..Len(out) |-> out[i].kind]
        IN  /\ (n = 0) => (out = <<Line("No users logged in.")>>)
            /\ (n = 1) =>
                   /\ Kinds = <<"line", "blank">>
                   /\ (~arg[1].terminal.some /\ ~arg[1].host.some) =>
                          out[1].text = "Logged In User:\n " \o arg[1].name
                                        \o " on console for " \o C9_Duration(arg[1])
            /\ (n >= 2) =>
                   /\ Kinds = <<"table", "blank">>
                   /\ Len(out[1].rows) = n
                   /\ \A i \in 1..n :
                          /\ out[1].rows[i][1] = arg[i].name
                          /\ out[1].rows[i][2] = arg[i].terminal.str
                          /\ out[1].rows[i][3] = arg[i].host.str
                          /\ (out[1].rows[i][4] = "") <=> IsNone(arg[i].started)

C9_Witness ==
    /\ Returned("show_logged_in_user")
    /\ Len(arg) = 2
    /\ arg[1].started = Whole(0)
    /\ IsNone(arg[2].started)
    /\ out[1].kind = "table"
    /\ out[1].rows[1][4] = "a minute ago"
    /\ out[1].rows[2][4] = ""

\* C10: show_memory prints the RAM text line always, and for swap prints the
\* "Swap: used / total" line when total swap > 0 and no line at all, not
\* even an empty one, when total swap is 0.
C10_SwapLine ==
    Returned("show_memory") =>
        LET smem == arg[2]
            lines == out[1].lines
        IN  /\ Len(lines) >= 1
            /\ lines[1] # ""
            /\ (smem.total = 0) => (Len(lines) = 1)
            /\ (smem.total > 0) =>
                   /\ Len(lines) = 2
                   /\ lines[2] = "Swap: " \o naturalsize(smem.used) \o " / "
                                  \o naturalsize(smem.total)

====
